---- MODULE Spec2Model ----
(***************************************************************************)
(* Penalty slice selection of bioptim (limits/penalty_helpers.py).         *)
(*                                                                         *)
(* A penalty record is declared once (Init) and then resolved any number   *)
(* of times by the resolution functions t0, states, controls, target and   *)
(* _get_multinode_indices.  Every resolution is one action: it records the *)
(* operation, its arguments, the calls it made to the data-access callback *)
(* (in order), the exception it raised (if any) and the value it returned. *)
(***************************************************************************)
EXTENDS Integers, Sequences, FiniteSets, TLC

VARIABLES penalty, op, arg_index, arg_constructing, arg_kind, arg_matrix, calls, exc, ret

\* Construction of a stochastic OCP (optimization/stochastic_optimal_control_program.py):
\* the arguments of __init__, the position reached in its body, the fields
\* set on the object and the penalty pool of the object, in order of addition
VARIABLES ctor, pc, ocp, pool

helper_vars == <<penalty, op, arg_index, arg_constructing, arg_kind, arg_matrix, calls, ret>>

socp_vars == <<ctor, pc, ocp, pool>>

vars == <<penalty, op, arg_index, arg_constructing, arg_kind, arg_matrix, calls, exc, ret, ctor, pc, ocp, pool>>

----------------------------------------------------------------------------
(* Bounds of the exploration *)

\* node indices of a phase are 0..MaxNode
MaxNode == 1
\* phase indices are 0..MaxPhase
MaxPhase == 1
\* nodes_phase and multinode_idx hold at most MaxCouplings entries
MaxCouplings == 3
\* rows of a state / control matrix
NX == 2
\* sub-steps (columns) of one shooting interval, the end point not counted
NSteps == 2
\* rows of a target array
NT == 2
\* a matrix handed to the reshape utility has 1..MaxDim rows and columns
MaxDim == 2
\* shooting count ns of a phase of a stochastic OCP is 1..MaxNs
MaxNs == 5
\* generalized coordinates of the model of a holonomic constraint (nb_q)
NQ == 2

----------------------------------------------------------------------------
(* Python values *)

\* Optional integer: None is <<>>, the integer i is <<i>>
None == << >>

Some(i) == <<i>>

\* slice(0, 1), slice(0, None) and slice(-1, None); a missing stop is left out
SliceFirst == <<0, 1>>

SliceAll == <<0>>

SliceLast == <<-1>>

\* penalty.phase is an int or a list of ints
ScalarPhase(p) == [isList |-> FALSE, v |-> <<p>>]

ListPhase(s) == [isList |-> TRUE, v |-> s]

\* QuadratureRule members read by the helpers
QuadratureRule == {"DEFAULT", "TRAPEZOIDAL", "APPROXIMATE_TRAPEZOIDAL"}

\* Exceptions: the Python class and the message of the raise statement
NoExc == [type |-> "None", msg |-> ""]

NotImplementedMultiPhase == [type |-> "NotImplementedError", msg |-> "penalty cost over multiple phases is not implemented yet"]

RuntimeErrorTransition == [type |-> "RuntimeError", msg |-> "Transition must have exactly 2 nodes and 2 phases"]

RuntimeErrorReshape == [type |-> "RuntimeError", msg |-> "Invalid type to reshape"]

RuntimeErrorVertcat == [type |-> "RuntimeError", msg |-> "Invalid type to vertcat"]

ValueErrorNotList == [type |-> "ValueError", msg |-> "_vertcat must be called with a list of vectors"]

ValueErrorMixed == [type |-> "ValueError", msg |-> "All elements of the list must be of the same type"]

\* raised by the interpreter on a subscript out of range
IndexError == [type |-> "IndexError", msg |-> "index out of range"]

NoVal == << >>

Ok(v) == [exc |-> NoExc, val |-> v]

Raise(e) == [exc |-> e, val |-> NoVal]

\* A matrix is its representation kind and its rows (ndim 2), a numpy vector
\* is the flat sequence of its elements (ndim 1)
Matrix(type, rows) == [type |-> type, ndim |-> 2, m |-> rows]

Array1D(elems) == [type |-> "ndarray", ndim |-> 1, m |-> elems]

CasadiTypes == {"SX", "MX", "DM"}

NRows(rows) == Len(rows)

NCols(rows) == IF Len(rows) = 0 THEN 0 ELSE Len(rows[1])

\* the elements of a matrix, column after column, as a one-column matrix
ColumnMajor(rows) ==
    LET nr == NRows(rows)
        nc == NCols(rows)
    IN  [k \in 1..(nr * nc) |-> << rows[((k - 1) % nr) + 1][((k - 1) \div nr) + 1] >>]

\* the elements of a matrix, row after row, as a one-column matrix
RowMajor(rows) ==
    LET nr == NRows(rows)
        nc == NCols(rows)
    IN  [k \in 1..(nr * nc) |-> << rows[((k - 1) \div nc) + 1][((k - 1) % nc) + 1] >>]

\* the elements of a numpy vector as a one-column matrix
AsColumn(elems) == [k \in 1..Len(elems) |-> << elems[k] >>]

RECURSIVE ConcatRows(_)
ConcatRows(vs) ==
    IF Len(vs) = 0 THEN << >> ELSE vs[1].m \o ConcatRows(Tail(vs))

----------------------------------------------------------------------------
(* Utilities of penalty_helpers.py *)

\* variant: the numeric array is read in the default (row after row) order
_reshape_to_vector_default_order(m) ==
    IF m.type \in CasadiTypes THEN Ok(Matrix(m.type, ColumnMajor(m.m)))
    ELSE IF m.type = "ndarray"
    THEN IF m.ndim = 1 THEN Ok(Matrix(m.type, AsColumn(m.m)))
         ELSE Ok(Matrix(m.type, RowMajor(m.m)))
    ELSE Raise(RuntimeErrorReshape)

\* casadi reshape and numpy reshape with order="F" both read column after
\* column; a numpy vector (ndim 1) becomes the column of its elements
_reshape_to_vector(m) ==
    IF m.type \in CasadiTypes THEN Ok(Matrix(m.type, ColumnMajor(m.m)))
    ELSE IF m.type = "ndarray"
    THEN IF m.ndim = 1 THEN Ok(Matrix(m.type, AsColumn(m.m)))
         ELSE Ok(Matrix(m.type, ColumnMajor(m.m)))
    ELSE Raise(RuntimeErrorReshape)

\* casadi.vertcat: numeric arguments give a DM, a symbolic argument its kind
vertcat(vs) ==
    LET symbolic == {i \in 1..Len(vs) : vs[i].type \in {"SX", "MX"}}
        type == IF symbolic = {} THEN "DM"
                ELSE vs[CHOOSE i \in symbolic : \A j \in symbolic : i <= j].type
    IN  Matrix(type, ConcatRows(vs))

\* variant: the elements are not compared with the type of the first one
_vertcat_no_type_check(v) ==
    IF ~v.isList THEN Raise(ValueErrorNotList)
    ELSE IF Len(v.items) = 0 THEN Raise(IndexError)
    ELSE IF v.items[1].type \in CasadiTypes THEN Ok(vertcat(v.items))
    ELSE IF v.items[1].type = "ndarray" THEN Ok(Matrix("ndarray", ConcatRows(v.items)))
    ELSE Raise(RuntimeErrorVertcat)

\* v is a Python object: [isList |-> TRUE, items |-> <<...>>] is a list
_vertcat(v) ==
    IF ~v.isList THEN Raise(ValueErrorNotList)
    ELSE IF Len(v.items) = 0 THEN Raise(IndexError)
    ELSE IF \E i \in 1..Len(v.items) : v.items[i].type # v.items[1].type
         THEN Raise(ValueErrorMixed)
    ELSE IF v.items[1].type \in CasadiTypes THEN Ok(vertcat(v.items))
    ELSE IF v.items[1].type = "ndarray" THEN Ok(Matrix("ndarray", ConcatRows(v.items)))
    ELSE Raise(RuntimeErrorVertcat)

PyList(items) == [isList |-> TRUE, items |-> items]

----------------------------------------------------------------------------
(* The data-access callbacks supplied by the owning OCP *)

\* columns a sub-node slice selects in a node that stores the sub-steps
\* 0..NSteps-1 followed by the end point (column NSteps): slice(0, None) does
\* not include the end point, slice(-1, None) is the end point alone
SliceColumns(sub) ==
    IF sub = SliceFirst THEN <<0>>
    ELSE IF sub = SliceAll THEN [c \in 1..NSteps |-> c - 1]
    ELSE <<NSteps>>

\* every element is tagged with where it comes from
DecisionMatrix(name, kind, phase, node, sub) ==
    LET cols == SliceColumns(sub)
    IN  Matrix(kind, [r \in 1..NX |-> [c \in 1..Len(cols) |-> <<name, phase, node, cols[c], r>>]])

get_state_decision(kind, phase, node, sub) == DecisionMatrix("x", kind, phase, node, sub)

get_control_decision(kind, phase, node, sub) == DecisionMatrix("u", kind, phase, node, sub)

\* stepwise time of a node; the helper reads its element [0, 0]
get_t0(phase, node) == << <<"t", phase, node>> >>

Call(phase, node, sub) == <<phase, node, sub>>

----------------------------------------------------------------------------
(* The multi-node index resolver *)

\* variant: a transition keeps the declared order
_get_multinode_indices_declared_order(p) ==
    IF p.transition
    THEN IF Len(p.nodes_phase) # 2 \/ Len(p.multinode_idx) # 2
         THEN Raise(RuntimeErrorTransition)
         ELSE Ok([phases |-> p.nodes_phase,
                  nodes |-> p.multinode_idx,
                  subnodes |-> <<SliceLast, SliceFirst>>])
    ELSE Ok([phases |-> p.nodes_phase,
             nodes |-> p.multinode_idx,
             subnodes |-> [i \in 1..Len(p.multinode_idx) |-> SliceFirst]])

\* variant: a transition is rejected only when both lists are malformed
_get_multinode_indices_and_check(p) ==
    IF p.transition
    THEN IF Len(p.nodes_phase) # 2 /\ Len(p.multinode_idx) # 2
         THEN Raise(RuntimeErrorTransition)
         ELSE IF Len(p.nodes_phase) < 2 \/ Len(p.multinode_idx) < 2
         THEN Raise(IndexError)
         ELSE Ok([phases |-> <<p.nodes_phase[2], p.nodes_phase[1]>>,
                  nodes |-> <<p.multinode_idx[2], p.multinode_idx[1]>>,
                  subnodes |-> <<SliceLast, SliceFirst>>])
    ELSE Ok([phases |-> p.nodes_phase,
             nodes |-> p.multinode_idx,
             subnodes |-> [i \in 1..Len(p.multinode_idx) |-> SliceFirst]])

\* variant: one sub-node selector per declared phase, not per declared node
_get_multinode_indices_subnodes_per_phase(p) ==
    IF p.transition
    THEN IF Len(p.nodes_phase) # 2 \/ Len(p.multinode_idx) # 2
         THEN Raise(RuntimeErrorTransition)
         ELSE Ok([phases |-> <<p.nodes_phase[2], p.nodes_phase[1]>>,
                  nodes |-> <<p.multinode_idx[2], p.multinode_idx[1]>>,
                  subnodes |-> <<SliceLast, SliceFirst>>])
    ELSE Ok([phases |-> p.nodes_phase,
             nodes |-> p.multinode_idx,
             subnodes |-> [i \in 1..Len(p.nodes_phase) |-> SliceFirst]])

_get_multinode_indices(p) ==
    IF p.transition
    THEN IF Len(p.nodes_phase) # 2 \/ Len(p.multinode_idx) # 2
         THEN Raise(RuntimeErrorTransition)
         ELSE Ok([phases |-> <<p.nodes_phase[2], p.nodes_phase[1]>>,
                  nodes |-> <<p.multinode_idx[2], p.multinode_idx[1]>>,
                  subnodes |-> <<SliceLast, SliceFirst>>])
    ELSE Ok([phases |-> p.nodes_phase,
             nodes |-> p.multinode_idx,
             subnodes |-> [i \in 1..Len(p.multinode_idx) |-> SliceFirst]])

Min3(a, b, c) ==
    LET ab == IF a <= b THEN a ELSE b
    IN  IF ab <= c THEN ab ELSE c

\* zip(phases, nodes, subnodes): stops at the shortest of the three lists
Zip(r) ==
    [i \in 1..Min3(Len(r.phases), Len(r.nodes), Len(r.subnodes)) |->
        Call(ScalarPhase(r.phases[i]), r.nodes[i], r.subnodes[i])]

----------------------------------------------------------------------------
(* The resolution functions of PenaltyHelpers *)

Outcome(e, c, v) == [exc |-> e, calls |-> c, val |-> v]

\* the callback a helper was given: get_state_decision for the states ("x"),
\* get_control_decision for the controls ("u")
Callback(name, kind, phase, node, sub) ==
    IF name = "x" THEN get_state_decision(kind, phase, node, sub)
    ELSE get_control_decision(kind, phase, node, sub)

\* Fetch the requested slices in order through the callback and reshape each
\* to a vector; a raise stops the sequence
Fetch(name, kind, reqs) ==
    LET rs == [i \in 1..Len(reqs) |-> _reshape_to_vector(Callback(name, kind, reqs[i][1], reqs[i][2], reqs[i][3]))]
        bad == {i \in 1..Len(reqs) : rs[i].exc # NoExc}
    IN  IF bad # {}
        THEN LET k == CHOOSE i \in bad : \A j \in bad : i <= j
             IN  Outcome(rs[k].exc, SubSeq(reqs, 1, k), NoVal)
        ELSE Outcome(NoExc, reqs, [i \in 1..Len(reqs) |-> rs[i].val])

\* the value c computed from the fetched vectors of f, unless the fetch raised
Then(f, c) ==
    IF f.exc # NoExc THEN f ELSE Outcome(c.exc, f.calls, c.val)

\* index = 0 if index is None else penalty.node_idx[index]
NodeOf(p, index) == IF index = None THEN 0 ELSE p.node_idx[index[1] + 1]

t0(p, penalty_node_idx) ==
    IF p.transition \/ p.multinode_penalty
    THEN LET r == _get_multinode_indices(p)
         IN  IF r.exc # NoExc THEN Outcome(r.exc, << >>, NoVal)
             ELSE IF Len(r.val.phases) = 0 \/ Len(r.val.nodes) = 0
                  THEN Outcome(IndexError, << >>, NoVal)
             ELSE LET phase == ScalarPhase(r.val.phases[1])
                      node == r.val.nodes[1]
                  IN  Outcome(NoExc, << <<phase, node>> >>, get_t0(phase, node)[1][1])
    ELSE LET phase == p.phase
             node == p.node_idx[penalty_node_idx + 1]
         IN  Outcome(NoExc, << <<phase, node>> >>, get_t0(phase, node)[1][1])

\* variant: a one-element phase list is rejected too
MultiPhaseGuard_nonempty(p) == p.phase.isList /\ Len(p.phase.v) >= 1

\* isinstance(penalty.phase, list) and len(penalty.phase) > 1
MultiPhaseGuard(p) == p.phase.isList /\ Len(p.phase.v) > 1

\* variant: the constructing flag is read the wrong way round
states_integrated_flag_inverted(p, node, kind, is_constructing_penalty) ==
    LET f == Fetch("x", kind,
                   << Call(p.phase, node, SliceAll),
                      IF ~is_constructing_penalty
                      THEN Call(p.phase, node, SliceLast)
                      ELSE Call(p.phase, node + 1, SliceFirst) >>)
    IN  Then(f, Ok(vertcat(f.val)))

\* the branch of states for integrated penalties
states_integrated(p, node, kind, is_constructing_penalty) ==
    LET f == Fetch("x", kind,
                   << Call(p.phase, node, SliceAll),
                      IF is_constructing_penalty
                      THEN Call(p.phase, node, SliceLast)
                      ELSE Call(p.phase, node + 1, SliceFirst) >>)
    IN  Then(f, Ok(vertcat(f.val)))

\* variant: both derivative kinds are concatenated as (x0, x1)
states_derivative_same_order(p, node, kind, is_constructing_penalty) ==
    LET f == Fetch("x", kind,
                   << Call(p.phase, node, SliceFirst),
                      IF is_constructing_penalty
                      THEN Call(p.phase, node, SliceLast)
                      ELSE Call(p.phase, node + 1, SliceFirst) >>)
    IN  Then(f, Ok(vertcat(<<f.val[1], f.val[2]>>)))

\* the branch of states for derivative and explicit_derivative penalties:
\* x0 is fetched first, then x1
states_derivative(p, node, kind, is_constructing_penalty) ==
    LET f == Fetch("x", kind,
                   << Call(p.phase, node, SliceFirst),
                      IF is_constructing_penalty
                      THEN Call(p.phase, node, SliceLast)
                      ELSE Call(p.phase, node + 1, SliceFirst) >>)
    IN  Then(f, IF p.derivative
                THEN Ok(vertcat(<<f.val[2], f.val[1]>>))
                ELSE Ok(vertcat(<<f.val[1], f.val[2]>>)))

\* the branch of states for transition and multinode penalties
states_multinode(p, kind) ==
    LET r == _get_multinode_indices(p)
    IN  IF r.exc # NoExc THEN Outcome(r.exc, << >>, NoVal)
        ELSE LET f == Fetch("x", kind, Zip(r.val))
             IN  Then(f, _vertcat(PyList(f.val)))

\* variant: a plain penalty fetches every sub-step of the node
states_plain_all_substeps(p, node, kind) ==
    LET f == Fetch("x", kind, << Call(p.phase, node, SliceAll) >>)
    IN  Then(f, Ok(f.val[1]))

\* the branch of states for plain penalties
states_plain(p, node, kind) ==
    LET f == Fetch("x", kind, << Call(p.phase, node, SliceFirst) >>)
    IN  Then(f, Ok(f.val[1]))

states(p, index, kind, is_constructing_penalty) ==
    IF MultiPhaseGuard(p)
    THEN Outcome(NotImplementedMultiPhase, << >>, NoVal)
    ELSE
    LET node == NodeOf(p, index)
    IN  IF p.integration_rule \in {"APPROXIMATE_TRAPEZOIDAL"} \/ p.integrate
        THEN states_integrated(p, node, kind, is_constructing_penalty)
        ELSE IF p.derivative \/ p.explicit_derivative
        THEN states_derivative(p, node, kind, is_constructing_penalty)
        ELSE IF p.transition \/ p.multinode_penalty
        THEN states_multinode(p, kind)
        ELSE states_plain(p, node, kind)

controls(p, index, kind) ==
    LET node == NodeOf(p, index)
    IN  IF p.transition \/ p.multinode_penalty
        THEN LET r == _get_multinode_indices(p)
             IN  IF r.exc # NoExc THEN Outcome(r.exc, << >>, NoVal)
                 ELSE LET u == Fetch("u", kind, Zip(r.val))
                      IN  Then(u, _vertcat(PyList(u.val)))
        ELSE IF p.integrate \/ p.derivative \/ p.explicit_derivative
        THEN LET u == Fetch("u", kind, << Call(p.phase, node, SliceAll) >>)
             IN  Then(u, Ok(u.val[1]))
        ELSE LET u == Fetch("u", kind, << Call(p.phase, node, SliceFirst) >>)
             IN  Then(u, Ok(u.val[1]))

\* a[..., j] of a 2-D array: its column j (0-based) as a 1-D array
LastAxis(a, j) == [r \in 1..NRows(a) |-> a[r][j + 1]]

\* np.vstack((a, b)).T of two 1-D arrays of the same length
VStackT(a, b) == [r \in 1..Len(a) |-> <<a[r], b[r]>>]

TypeErrorNone == [type |-> "TypeError", msg |-> "'NoneType' object is not subscriptable"]

\* variant: the integration rule is looked at before the missing target
target_rule_first(p, penalty_node_idx) ==
    IF p.integration_rule \in {"APPROXIMATE_TRAPEZOIDAL", "TRAPEZOIDAL"}
    THEN IF p.target.isNone
         THEN Outcome(TypeErrorNone, << >>, NoVal)
         ELSE IF Len(p.target.arrays) < 2 \/ penalty_node_idx >= NCols(p.target.arrays[1])
         THEN Outcome(IndexError, << >>, NoVal)
         ELSE Outcome(NoExc, << >>,
                      Matrix("ndarray", VStackT(LastAxis(p.target.arrays[1], penalty_node_idx),
                                                LastAxis(p.target.arrays[2], penalty_node_idx))))
    ELSE IF p.target.isNone
    THEN Outcome(NoExc, << >>, Array1D(<< >>))
    ELSE IF penalty_node_idx >= NCols(p.target.arrays[1])
         THEN Outcome(IndexError, << >>, NoVal)
         ELSE Outcome(NoExc, << >>, Array1D(LastAxis(p.target.arrays[1], penalty_node_idx)))

\* variant: the two stacked targets are taken in the other order
target_next_first(p, penalty_node_idx) ==
    IF p.target.isNone
    THEN Outcome(NoExc, << >>, Array1D(<< >>))
    ELSE IF p.integration_rule \in {"APPROXIMATE_TRAPEZOIDAL", "TRAPEZOIDAL"}
    THEN IF penalty_node_idx >= NCols(p.target.arrays[1])
         THEN Outcome(IndexError, << >>, NoVal)
         ELSE IF Len(p.target.arrays) < 2 \/ penalty_node_idx >= NCols(p.target.arrays[2])
         THEN Outcome(IndexError, << >>, NoVal)
         ELSE Outcome(NoExc, << >>,
                      Matrix("ndarray", VStackT(LastAxis(p.target.arrays[2], penalty_node_idx),
                                                LastAxis(p.target.arrays[1], penalty_node_idx))))
    ELSE IF penalty_node_idx >= NCols(p.target.arrays[1])
         THEN Outcome(IndexError, << >>, NoVal)
         ELSE Outcome(NoExc, << >>, Array1D(LastAxis(p.target.arrays[1], penalty_node_idx)))

target(p, penalty_node_idx) ==
    IF p.target.isNone
    THEN Outcome(NoExc, << >>, Array1D(<< >>))
    ELSE IF p.integration_rule \in {"APPROXIMATE_TRAPEZOIDAL", "TRAPEZOIDAL"}
    THEN IF penalty_node_idx >= NCols(p.target.arrays[1])
         THEN Outcome(IndexError, << >>, NoVal)
         ELSE IF Len(p.target.arrays) < 2 \/ penalty_node_idx >= NCols(p.target.arrays[2])
         THEN Outcome(IndexError, << >>, NoVal)
         ELSE Outcome(NoExc, << >>,
                      Matrix("ndarray", VStackT(LastAxis(p.target.arrays[1], penalty_node_idx),
                                                LastAxis(p.target.arrays[2], penalty_node_idx))))
    ELSE IF penalty_node_idx >= NCols(p.target.arrays[1])
         THEN Outcome(IndexError, << >>, NoVal)
         ELSE Outcome(NoExc, << >>, Array1D(LastAxis(p.target.arrays[1], penalty_node_idx)))

weight(p) == Outcome(NoExc, << >>, p.weight)

\* get_all_dt answers all_dt; the result is reshaped twice
phases_dt(p, all_dt) ==
    LET inner == _reshape_to_vector(all_dt)
    IN  IF inner.exc # NoExc THEN Outcome(inner.exc, << >>, NoVal)
        ELSE LET outer == _reshape_to_vector(inner.val)
             IN  Outcome(outer.exc, << >>, outer.val)

\* get_parameter answers param
parameters(p, param) ==
    LET r == _reshape_to_vector(param)
    IN  Outcome(r.exc, << >>, r.val)

----------------------------------------------------------------------------
(* The penalties that are declared *)

Flags == {"integrate", "derivative", "explicit_derivative", "transition", "multinode_penalty"}

Penalty(phase, node_idx, nodes_phase, multinode_idx, tgt, rule, flags) ==
    [phase |-> phase,
     node_idx |-> node_idx,
     nodes_phase |-> nodes_phase,
     multinode_idx |-> multinode_idx,
     target |-> tgt,
     integration_rule |-> rule,
     integrate |-> "integrate" \in flags,
     derivative |-> "derivative" \in flags,
     explicit_derivative |-> "explicit_derivative" \in flags,
     transition |-> "transition" \in flags,
     multinode_penalty |-> "multinode_penalty" \in flags,
     weight |-> <<"weight">>]

SeqsUpTo(S, n) == UNION {[1..k -> S] : k \in 0..n}

NonDecreasing(s) == \A i \in 1..(Len(s) - 1) : s[i] <= s[i + 1]

Increasing(s) == \A i \in 1..(Len(s) - 1) : s[i] < s[i + 1]

\* a scalar phase, a one-element list and a list of two phases
PhaseInputs == {ScalarPhase(0), ListPhase(<<MaxPhase>>), ListPhase(<<0, MaxPhase>>)}

\* node lists are sorted and hold one or two nodes of 0..MaxNode
NodeIdxInputs == {s \in SeqsUpTo(0..MaxNode, 2) : Len(s) >= 1 /\ Increasing(s)}

NoTarget == [isNone |-> TRUE, arrays |-> << >>]

\* the k-th target array of a penalty applied at n nodes: NT rows, n columns
TargetArray(k, n) == [r \in 1..NT |-> [j \in 1..n |-> <<"target", k, r, j>>]]

TargetInputs(n) ==
    {NoTarget,
     [isNone |-> FALSE, arrays |-> <<TargetArray(0, n)>>],
     [isNone |-> FALSE, arrays |-> <<TargetArray(0, n), TargetArray(1, n)>>]}

SingleNodePenalties ==
    UNION {{Penalty(ph, ni, << >>, << >>, tg, rule, fl) :
                ph \in PhaseInputs, tg \in TargetInputs(Len(ni)),
                rule \in QuadratureRule,
                fl \in SUBSET {"integrate", "derivative", "explicit_derivative"}} :
           ni \in NodeIdxInputs}

\* declared couplings: up to MaxCouplings phases (in phase order) and up to
\* MaxCouplings nodes (first or last node of a phase), of independent lengths
MultinodePenalties ==
    {Penalty(ph, <<0>>, np, mi, NoTarget, "DEFAULT", fl) :
        ph \in PhaseInputs,
        np \in {s \in SeqsUpTo(0..MaxPhase, MaxCouplings) : NonDecreasing(s)},
        mi \in SeqsUpTo({0, MaxNode}, MaxCouplings),
        fl \in {{"transition"}, {"multinode_penalty"}, {"transition", "multinode_penalty"}}}

\* every combination of flags and rule on a well-formed pair of couplings
MixedPenalties ==
    {Penalty(ScalarPhase(0), <<0>>, <<0, MaxPhase>>, <<MaxNode, 0>>, NoTarget, rule, fl) :
        rule \in QuadratureRule,
        fl \in {f \in SUBSET Flags : "transition" \in f \/ "multinode_penalty" \in f}}

PenaltyInputs == SingleNodePenalties \cup MultinodePenalties \cup MixedPenalties

\* representation kinds the callbacks return
DataKinds == {"MX", "ndarray"}

\* the index argument of states and controls: None or a position of node_idx
IndexArgs(p) == {None} \cup {Some(i) : i \in 0..(Len(p.node_idx) - 1)}

----------------------------------------------------------------------------
(* The state machine *)

\* no stochastic OCP is being constructed
NoConstruction ==
    /\ ctor = NoVal
    /\ pc = "none"
    /\ ocp = NoVal
    /\ pool = << >>


\* what get_all_dt and get_parameter answer for a declared penalty: a
\* symbolic row of two values
CallbackAnswer == Matrix("MX", << << <<"value", 0>>, <<"value", 1>> >> >>)

Init ==
    /\ penalty \in PenaltyInputs
    /\ op = "idle"
    /\ arg_index = None
    /\ arg_constructing = FALSE
    /\ arg_kind = "MX"
    /\ arg_matrix = CallbackAnswer
    /\ calls = << >>
    /\ exc = NoExc
    /\ ret = NoVal
    /\ NoConstruction

\* variant: a call uses up the target of the penalty
Returns_consumes_target(name, index, constructing, kind, r) ==
    /\ op' = name
    /\ arg_index' = index
    /\ arg_constructing' = constructing
    /\ arg_kind' = kind
    /\ calls' = r.calls
    /\ exc' = r.exc
    /\ ret' = r.val
    /\ penalty' = [penalty EXCEPT !.target = NoTarget]
    /\ UNCHANGED arg_matrix
    /\ UNCHANGED socp_vars

Returns(name, index, constructing, kind, r) ==
    /\ op' = name
    /\ arg_index' = index
    /\ arg_constructing' = constructing
    /\ arg_kind' = kind
    /\ calls' = r.calls
    /\ exc' = r.exc
    /\ ret' = r.val
    /\ UNCHANGED <<penalty, arg_matrix>>
    /\ UNCHANGED socp_vars

CallGetMultinodeIndices ==
    /\ penalty.transition \/ penalty.multinode_penalty
    /\ LET r == _get_multinode_indices(penalty)
       IN  Returns("_get_multinode_indices", None, FALSE, "MX", Outcome(r.exc, << >>, r.val))

CallT0 ==
    \E i \in 0..(Len(penalty.node_idx) - 1) :
        Returns("t0", Some(i), FALSE, "MX", t0(penalty, i))

CallStates ==
    \E index \in IndexArgs(penalty), kind \in DataKinds, constructing \in BOOLEAN :
        Returns("states", index, constructing, kind, states(penalty, index, kind, constructing))

CallControls ==
    \E index \in IndexArgs(penalty), kind \in DataKinds :
        Returns("controls", index, FALSE, kind, controls(penalty, index, kind))

CallTarget ==
    \E i \in 0..(MaxNode + 1) :
        Returns("target", Some(i), FALSE, "MX", target(penalty, i))

CallWeight == Returns("weight", None, FALSE, "MX", weight(penalty))

\* phases_dt and parameters of a declared penalty; the callback answers the
\* matrix fixed at declaration
ResolvePhasesDt == Returns("phases_dt", None, FALSE, "MX", phases_dt(penalty, arg_matrix))

ResolveParameters == Returns("parameters", None, FALSE, "MX", parameters(penalty, arg_matrix))

Next ==
    \/ CallGetMultinodeIndices
    \/ CallT0
    \/ CallStates
    \/ CallControls
    \/ CallTarget
    \/ CallWeight
    \/ ResolvePhasesDt
    \/ ResolveParameters

Spec == Init /\ [][Next]_vars

----------------------------------------------------------------------------
(* The reshape utility on its own: a matrix is drawn, then reshaped by *)
(* phases_dt, by parameters or directly, and a result is reshaped again *)

MatrixElems == {"a", "b"}

\* "list" stands for every type that is neither casadi nor numpy
MatrixKinds == CasadiTypes \cup {"ndarray", "list"}

MatrixInputs ==
    UNION {UNION {{Matrix(k, rows) : rows \in [1..nr -> [1..nc -> MatrixElems]]}
                  : nr \in 1..MaxDim, nc \in 1..MaxDim}
           : k \in MatrixKinds}
    \cup UNION {{Array1D(elems) : elems \in [1..n -> MatrixElems]} : n \in 1..MaxDim}

InitReshape ==
    /\ penalty = Penalty(ScalarPhase(0), <<0>>, << >>, << >>, NoTarget, "DEFAULT", {})
    /\ op = "idle"
    /\ arg_index = None
    /\ arg_constructing = FALSE
    /\ arg_kind = "MX"
    /\ arg_matrix \in MatrixInputs
    /\ calls = << >>
    /\ exc = NoExc
    /\ ret = NoVal
    /\ NoConstruction

CallPhasesDt ==
    /\ op = "idle"
    /\ Returns("phases_dt", None, FALSE, "MX", phases_dt(penalty, arg_matrix))

CallParameters ==
    /\ op = "idle"
    /\ Returns("parameters", None, FALSE, "MX", parameters(penalty, arg_matrix))

CallReshapeToVector ==
    /\ op = "idle"
    /\ LET r == _reshape_to_vector(arg_matrix)
       IN  Returns("_reshape_to_vector", None, FALSE, "MX", Outcome(r.exc, << >>, r.val))

\* the vector a call returned is handed to the utility again
CallReshapeToVectorAgain ==
    /\ op \in {"phases_dt", "parameters", "_reshape_to_vector"}
    /\ exc = NoExc
    /\ LET r == _reshape_to_vector(ret)
       IN  /\ op' = "_reshape_to_vector"
           /\ arg_matrix' = ret
           /\ exc' = r.exc
           /\ ret' = r.val
           /\ UNCHANGED <<penalty, arg_index, arg_constructing, arg_kind, calls>>
           /\ UNCHANGED socp_vars

NextReshape ==
    \/ CallPhasesDt
    \/ CallParameters
    \/ CallReshapeToVector
    \/ CallReshapeToVectorAgain

SpecReshape == InitReshape /\ [][NextReshape]_vars

----------------------------------------------------------------------------
(* The concatenation utility on its own: an argument is drawn and handed *)
(* to _vertcat *)

\* the i-th vector of an argument: a column of n elements of one kind
VectorItem(kind, i, n) == Matrix(kind, [r \in 1..n |-> << <<"v", i, r>> >>])

\* sequences of at most MaxCouplings vectors, each of 1..NX elements and of
\* any kind, handed over as a list or as a tuple (isList FALSE)
VertcatInputs ==
    UNION {{[isList |-> l, items |-> [i \in 1..len |-> VectorItem(ks[i], i, ns[i])]] :
                ks \in [1..len -> MatrixKinds], ns \in [1..len -> 1..NX], l \in BOOLEAN}
           : len \in 0..MaxCouplings}

InitVertcat ==
    /\ penalty = Penalty(ScalarPhase(0), <<0>>, << >>, << >>, NoTarget, "DEFAULT", {})
    /\ op = "idle"
    /\ arg_index = None
    /\ arg_constructing = FALSE
    /\ arg_kind = "MX"
    /\ arg_matrix \in VertcatInputs
    /\ calls = << >>
    /\ exc = NoExc
    /\ ret = NoVal
    /\ NoConstruction

CallVertcat ==
    /\ op = "idle"
    /\ LET r == _vertcat(arg_matrix)
       IN  Returns("_vertcat", None, FALSE, "MX", Outcome(r.exc, << >>, r.val))

NextVertcat == CallVertcat

SpecVertcat == InitVertcat /\ [][NextVertcat]_vars

----------------------------------------------------------------------------
(* The stochastic assemblers of StochasticOptimalControlProgram *)

ValueErrorThreads ==
    [type |-> "ValueError",
     msg |-> "Multi-threading is not possible yet while solving a stochactic ocp.n_thread is set to 1 by default."]

ValueErrorPhaseDynamics ==
    [type |-> "ValueError",
     msg |-> "The dynamics cannot be assumed to be the same between phases with a stochactic ocp.assume_phase_dynamics is set to False by default."]

\* an entry of a MultinodeConstraintList
MultinodeConstraint(fcn, nodes_phase, nodes, dynamics, wM_magnitude, wS_magnitude) ==
    [list |-> "MultinodeConstraintList",
     fcn |-> fcn,
     nodes_phase |-> nodes_phase,
     nodes |-> nodes,
     node |-> "",
     phase |-> None,
     dynamics |-> dynamics,
     wM_magnitude |-> wM_magnitude,
     wS_magnitude |-> wS_magnitude]

\* an entry of a ConstraintList
Constraint(fcn, node, phase, wM_magnitude, wS_magnitude) ==
    [list |-> "ConstraintList",
     fcn |-> fcn,
     nodes_phase |-> << >>,
     nodes |-> << >>,
     node |-> node,
     phase |-> Some(phase),
     dynamics |-> None,
     wM_magnitude |-> wM_magnitude,
     wS_magnitude |-> wS_magnitude]

RECURSIVE FlattenSeq(_)
FlattenSeq(ss) ==
    IF Len(ss) = 0 THEN << >> ELSE ss[1] \o FlattenSeq(Tail(ss))

\* ocp.add_or_replace_to_penalty_pool of a penalty list: its entries join
\* the pool in list order
add_or_replace_to_penalty_pool(pl, penalty_list) == pl \o penalty_list

\* variant: the node loop of a phase runs over range(nlp.ns)
penalty_m_dg_dz_list_every_node(nlp, wM_magnitude, wS_magnitude) ==
    FlattenSeq([p \in 1..Len(nlp) |->
        [k \in 1..nlp[p].ns |->
            MultinodeConstraint("M_EQUALS_INVERSE_OF_DG_DZ", <<p - 1, p - 1>>, <<k - 1, k>>,
                                nlp[p].dynamic_function, wM_magnitude, wS_magnitude)]
        \o (IF p - 1 > 0
            THEN << MultinodeConstraint("M_EQUALS_INVERSE_OF_DG_DZ", <<p - 2, p - 1>>, <<-1, 0>>,
                                        nlp[p].dynamic_function, wM_magnitude, wS_magnitude) >>
            ELSE << >>)])

\* variant: the boundary constraint is emitted for every phase
penalty_m_dg_dz_list_every_phase(nlp, wM_magnitude, wS_magnitude) ==
    FlattenSeq([p \in 1..Len(nlp) |->
        [k \in 1..(nlp[p].ns - 1) |->
            MultinodeConstraint("M_EQUALS_INVERSE_OF_DG_DZ", <<p - 1, p - 1>>, <<k - 1, k>>,
                                nlp[p].dynamic_function, wM_magnitude, wS_magnitude)]
        \o << MultinodeConstraint("M_EQUALS_INVERSE_OF_DG_DZ", <<p - 2, p - 1>>, <<-1, 0>>,
                                  nlp[p].dynamic_function, wM_magnitude, wS_magnitude) >>])

\* penalty_m_dg_dz_list of the explicit assembler after its loops
\* (i_phase is p - 1, i_node is k - 1)
penalty_m_dg_dz_list(nlp, wM_magnitude, wS_magnitude) ==
    FlattenSeq([p \in 1..Len(nlp) |->
        [k \in 1..(nlp[p].ns - 1) |->
            MultinodeConstraint("M_EQUALS_INVERSE_OF_DG_DZ", <<p - 1, p - 1>>, <<k - 1, k>>,
                                nlp[p].dynamic_function, wM_magnitude, wS_magnitude)]
        \o (IF p - 1 > 0
            THEN << MultinodeConstraint("M_EQUALS_INVERSE_OF_DG_DZ", <<p - 2, p - 1>>, <<-1, 0>>,
                                        nlp[p].dynamic_function, wM_magnitude, wS_magnitude) >>
            ELSE << >>)])

_prepare_stochastic_dynamics_explicit(pl, nlp, wM_magnitude, wS_magnitude) ==
    add_or_replace_to_penalty_pool(pl, penalty_m_dg_dz_list(nlp, wM_magnitude, wS_magnitude))

\* "constrain M" loop of the implicit assembler
ImplicitConstrainM(nlp, wM_magnitude, wS_magnitude) ==
    FlattenSeq([p \in 1..Len(nlp) |->
        [k \in 1..(nlp[p].ns - 1) |->
            MultinodeConstraint("M_EQUALS_INVERSE_OF_DG_DZ", <<p - 1, p - 1>>, <<k - 1, k>>,
                                nlp[p].dynamic_function, wM_magnitude, wS_magnitude)]
        \o (IF p - 1 > 0
            THEN << MultinodeConstraint("M_EQUALS_INVERSE_OF_DG_DZ", <<p - 2, p - 1>>, <<-1, 0>>,
                                        nlp[p].dynamic_function, wM_magnitude, wS_magnitude) >>
            ELSE << >>)])

\* "Constrain P" loop: what it adds to multi_node_penalties
ImplicitConstrainPMulti(nlp, wM_magnitude, wS_magnitude) ==
    FlattenSeq([p \in 1..Len(nlp) |->
        IF p - 1 > 0
        THEN << MultinodeConstraint("COVARIANCE_MATRIX_CONINUITY_IMPLICIT", <<p - 2, p - 1>>, <<-1, 0>>,
                                    None, wM_magnitude, wS_magnitude) >>
        ELSE << >>])

\* one single-node constraint per phase, at Node.ALL
ImplicitSingleNode(fcn, nlp, wM_magnitude, wS_magnitude) ==
    [p \in 1..Len(nlp) |-> Constraint(fcn, "ALL", p - 1, wM_magnitude, wS_magnitude)]

\* variant: the M loop of the implicit assembler runs over range(nlp.ns)
multi_node_penalties_every_node(nlp, wM_magnitude, wS_magnitude) ==
    penalty_m_dg_dz_list_every_node(nlp, wM_magnitude, wS_magnitude)
    \o ImplicitConstrainPMulti(nlp, wM_magnitude, wS_magnitude)

\* variant: the covariance continuity is coupled at every phase, the first included
multi_node_penalties_p_every_phase(nlp, wM_magnitude, wS_magnitude) ==
    ImplicitConstrainM(nlp, wM_magnitude, wS_magnitude)
    \o [p \in 1..Len(nlp) |->
           MultinodeConstraint("COVARIANCE_MATRIX_CONINUITY_IMPLICIT", <<p - 2, p - 1>>, <<-1, 0>>,
                               None, wM_magnitude, wS_magnitude)]

\* multi_node_penalties of the implicit assembler after its loops
multi_node_penalties(nlp, wM_magnitude, wS_magnitude) ==
    ImplicitConstrainM(nlp, wM_magnitude, wS_magnitude)
    \o ImplicitConstrainPMulti(nlp, wM_magnitude, wS_magnitude)

\* variant: the C constraints are left out
single_node_penalties_no_c(nlp, wM_magnitude, wS_magnitude) ==
    ImplicitSingleNode("COVARIANCE_MATRIX_CONINUITY_IMPLICIT", nlp, wM_magnitude, wS_magnitude)
    \o ImplicitSingleNode("A_EQUALS_DF_DX", nlp, wM_magnitude, wS_magnitude)

\* single_node_penalties of the implicit assembler: the P, A and C loops run
\* one after the other
single_node_penalties(nlp, wM_magnitude, wS_magnitude) ==
    ImplicitSingleNode("COVARIANCE_MATRIX_CONINUITY_IMPLICIT", nlp, wM_magnitude, wS_magnitude)
    \o ImplicitSingleNode("A_EQUALS_DF_DX", nlp, wM_magnitude, wS_magnitude)
    \o ImplicitSingleNode("C_EQUALS_DF_DW", nlp, wM_magnitude, wS_magnitude)

_prepare_stochastic_dynamics_implicit(pl, nlp, wM_magnitude, wS_magnitude) ==
    add_or_replace_to_penalty_pool(
        add_or_replace_to_penalty_pool(pl, multi_node_penalties(nlp, wM_magnitude, wS_magnitude)),
        single_node_penalties(nlp, wM_magnitude, wS_magnitude))

\* isinstance(problem_type, OcpType.<class>): a class object is not an
\* instance of itself
IsInstance(problem_type, class) == problem_type.instance /\ problem_type.class = class

\* variant: the generated constraints are added before the declared ones
_declare_multi_node_penalties_generated_first(pl, problem_type, nlp, multinode_constraints, multinode_objectives) ==
    LET generated ==
            IF IsInstance(problem_type, "SOCP_EXPLICIT")
            THEN _prepare_stochastic_dynamics_explicit(pl, nlp, problem_type.wM_magnitude, problem_type.wS_magnitude)
            ELSE IF IsInstance(problem_type, "SOCP_IMPLICIT")
            THEN _prepare_stochastic_dynamics_implicit(pl, nlp, problem_type.wM_magnitude, problem_type.wS_magnitude)
            ELSE pl
    IN  add_or_replace_to_penalty_pool(
            add_or_replace_to_penalty_pool(generated, multinode_constraints), multinode_objectives)

\* the pool after _declare_multi_node_penalties
_declare_multi_node_penalties(pl, problem_type, nlp, multinode_constraints, multinode_objectives) ==
    LET declared == add_or_replace_to_penalty_pool(
                        add_or_replace_to_penalty_pool(pl, multinode_constraints), multinode_objectives)
    IN  IF IsInstance(problem_type, "SOCP_EXPLICIT")
        THEN _prepare_stochastic_dynamics_explicit(declared, nlp, problem_type.wM_magnitude, problem_type.wS_magnitude)
        ELSE IF IsInstance(problem_type, "SOCP_IMPLICIT")
        THEN _prepare_stochastic_dynamics_implicit(declared, nlp, problem_type.wM_magnitude, problem_type.wS_magnitude)
        ELSE declared

----------------------------------------------------------------------------
(* Construction of a stochastic OCP: StochasticOptimalControlProgram.__init__ *)

\* a value of OcpType: an instance carries the two noise magnitudes; the
\* declared default of problem_type is the class OcpType.SOCP_EXPLICIT itself
ProblemType(class, instance) ==
    [class |-> class,
     instance |-> instance,
     wM_magnitude |-> IF instance THEN "wM" ELSE "unset",
     wS_magnitude |-> IF instance THEN "wS" ELSE "unset"]

ProblemTypeInputs ==
    {ProblemType("SOCP_EXPLICIT", TRUE),
     ProblemType("SOCP_IMPLICIT", TRUE),
     ProblemType("SOCP_EXPLICIT", FALSE)}

\* **kwargs: the keywords of the call that name no parameter of __init__,
\* as a set of <<keyword, value>>
HasKey(kwargs, key) == \E kv \in kwargs : kv[1] = key

Get(kwargs, key) == (CHOOSE kv \in kwargs : kv[1] = key)[2]

KwargsInputs == {{}} \cup {{<<"n_thread", v>>} : v \in {1, 2}}

\* n_shooting of 1..MaxPhase + 1 phases
NShootingInputs == UNION {[1..n -> 1..MaxNs] : n \in 1..(MaxPhase + 1)}

\* multi-node penalties declared by the caller
MultinodeConstraintInputs ==
    {<< >>, << MultinodeConstraint("CUSTOM", <<0, 0>>, <<0, 1>>, None, "unset", "unset") >>}

MultinodeObjectiveInputs ==
    {<< >>,
     << [MultinodeConstraint("CUSTOM", <<0, 0>>, <<0, 1>>, None, "unset", "unset")
            EXCEPT !.list = "MultinodeObjectiveList"] >>}

CtorInputs ==
    [n_shooting : NShootingInputs,
     multinode_constraints : MultinodeConstraintInputs,
     multinode_objectives : MultinodeObjectiveInputs,
     n_threads : {1, 2},
     assume_phase_dynamics : BOOLEAN,
     problem_type : ProblemTypeInputs,
     kwargs : KwargsInputs]

\* the object before the body of __init__ runs
NewOcp ==
    [n_threads |-> None,
     assume_phase_dynamics |-> None,
     bio_model_initialized |-> FALSE,
     original_values |-> None,
     build_arguments |-> None,
     nlp |-> << >>,
     problem_type |-> None,
     finalized |-> FALSE]

\* the arguments __init__ hands to set_original_values and to
\* check_arguments_and_build_nlp
Forwarded(c) ==
    [n_shooting |-> c.n_shooting,
     n_threads |-> c.n_threads,
     assume_phase_dynamics |-> c.assume_phase_dynamics]

\* the phases check_arguments_and_build_nlp builds, one per entry of n_shooting
BuildNlp(n_shooting) ==
    [p \in 1..Len(n_shooting) |->
        [ns |-> n_shooting[p], dynamic_function |-> <<"dynamic_function", p - 1>>]]

InitSocp ==
    /\ penalty = Penalty(ScalarPhase(0), <<0>>, << >>, << >>, NoTarget, "DEFAULT", {})
    /\ op = "idle"
    /\ arg_index = None
    /\ arg_constructing = FALSE
    /\ arg_kind = "MX"
    /\ arg_matrix = NoVal
    /\ calls = << >>
    /\ exc = NoExc
    /\ ret = NoVal
    /\ ctor \in CtorInputs
    /\ pc = "__init__"
    /\ ocp = NewOcp
    /\ pool = << >>

\* variant: the exception is caught and raised again as a ValueError
Raises_as_value_error(e) ==
    /\ exc' = [type |-> "ValueError", msg |-> e.msg]
    /\ pc' = "raised"
    /\ UNCHANGED <<ctor, ocp, pool>>
    /\ UNCHANGED helper_vars

\* an exception leaves __init__: its body has no try statement
Raises(e) ==
    /\ exc' = e
    /\ pc' = "raised"
    /\ UNCHANGED <<ctor, ocp, pool>>
    /\ UNCHANGED helper_vars

\* the error of the linear solve met when a problem is built with SX
RuntimeErrorLinsol == [type |-> "RuntimeError", msg |-> "eval_sx not defined for LinsolQr"]

CollaboratorErrors == {RuntimeErrorLinsol}

CheckThreads ==
    /\ pc = "__init__"
    /\ IF HasKey(ctor.kwargs, "n_thread") /\ Get(ctor.kwargs, "n_thread") # 1
       THEN Raises(ValueErrorThreads)
       ELSE /\ ocp' = [ocp EXCEPT !.n_threads = Some(1)]
            /\ pc' = "n_threads_set"
            /\ UNCHANGED <<ctor, pool, exc>>
            /\ UNCHANGED helper_vars

CheckPhaseDynamics ==
    /\ pc = "n_threads_set"
    /\ IF HasKey(ctor.kwargs, "assume_phase_dynamics") /\ Get(ctor.kwargs, "assume_phase_dynamics")
       THEN Raises(ValueErrorPhaseDynamics)
       ELSE /\ ocp' = [ocp EXCEPT !.assume_phase_dynamics = Some(FALSE)]
            /\ pc' = "assume_phase_dynamics_set"
            /\ UNCHANGED <<ctor, pool, exc>>
            /\ UNCHANGED helper_vars

InitializeModel ==
    /\ pc = "assume_phase_dynamics_set"
    /\ ocp' = [ocp EXCEPT !.bio_model_initialized = TRUE]
    /\ pc' = "model_initialized"
    /\ UNCHANGED <<ctor, pool, exc>>
    /\ UNCHANGED helper_vars

SetOriginalValues ==
    /\ pc = "model_initialized"
    /\ ocp' = [ocp EXCEPT !.original_values = Some(Forwarded(ctor))]
    /\ pc' = "original_values_set"
    /\ UNCHANGED <<ctor, pool, exc>>
    /\ UNCHANGED helper_vars

CheckArgumentsAndBuildNlp ==
    /\ pc = "original_values_set"
    /\ ocp' = [ocp EXCEPT !.build_arguments = Some(Forwarded(ctor)),
                          !.nlp = BuildNlp(ctor.n_shooting)]
    /\ pc' = "nlp_built"
    /\ UNCHANGED <<ctor, pool, exc>>
    /\ UNCHANGED helper_vars

DeclareMultiNodePenalties ==
    /\ pc = "nlp_built"
    /\ ocp' = [ocp EXCEPT !.problem_type = Some(ctor.problem_type)]
    /\ pool' = _declare_multi_node_penalties(pool, ctor.problem_type, ocp.nlp,
                                             ctor.multinode_constraints, ctor.multinode_objectives)
    /\ pc' = "penalties_declared"
    /\ UNCHANGED <<ctor, exc>>
    /\ UNCHANGED helper_vars

FinalizePenalties ==
    /\ pc = "penalties_declared"
    /\ ocp' = [ocp EXCEPT !.finalized = TRUE]
    /\ pc' = "done"
    /\ UNCHANGED <<ctor, pool, exc>>
    /\ UNCHANGED helper_vars

\* the collaborator called next (check_bioptim_version / initialize_model,
\* set_original_values, check_arguments_and_build_nlp, the penalty lists,
\* finalize_penalties) raises instead of returning
CollaboratorRaises ==
    /\ pc \in {"assume_phase_dynamics_set", "model_initialized", "original_values_set",
               "nlp_built", "penalties_declared"}
    /\ \E e \in CollaboratorErrors : Raises(e)

NextSocp ==
    \/ CheckThreads
    \/ CheckPhaseDynamics
    \/ InitializeModel
    \/ SetOriginalValues
    \/ CheckArgumentsAndBuildNlp
    \/ DeclareMultiNodePenalties
    \/ FinalizePenalties
    \/ CollaboratorRaises

SpecSocp == InitSocp /\ [][NextSocp]_vars

\* the nodes of a phase as the description counts them: a phase of shooting
\* count ns has the nodes 0..ns - 1, and Node.ALL stands for all of them
NodesOfPhase(nlp_p) == 0..(nlp_p.ns - 1)

----------------------------------------------------------------------------
(* Holonomic constraints: HolonomicConstraintFcn.superimpose_markers *)
(* (examples/discrete_mechanics_and_optimal_control/holonomic_constraints.py) *)

\* A symbolic expression in q is kept as a polynomial: component r is
\* sum over c of lin[r][c] * q[c] + quad[r][c] * q[c]^2

\* biorbd_model.marker(q_sym, index): the three coordinates of a marker in
\* the global frame, for the two markers of the model
Marker(name) ==
    IF name = "marker_1"
    THEN [lin |-> [r \in 1..3 |-> [c \in 1..NQ |-> r + c]],
          quad |-> [r \in 1..3 |-> [c \in 1..NQ |-> (r * c) % 2]]]
    ELSE [lin |-> [r \in 1..3 |-> [c \in 1..NQ |-> r * c]],
          quad |-> [r \in 1..3 |-> [c \in 1..NQ |-> 1]]]

\* marker_1_sym - marker_2_sym
Minus(a, b) ==
    [lin |-> [r \in 1..3 |-> [c \in 1..NQ |-> a.lin[r][c] - b.lin[r][c]]],
     quad |-> [r \in 1..3 |-> [c \in 1..NQ |-> a.quad[r][c] - b.quad[r][c]]]]

\* expression[index] for index = slice(start, stop)
Subscript(e, index) ==
    [lin |-> SubSeq(e.lin, index[1] + 1, index[2]),
     quad |-> SubSeq(e.quad, index[1] + 1, index[2])]

\* the constraint expression of the call
constraint(a) ==
    IF a.marker_2 # None
    THEN Subscript(Minus(Marker(a.marker_1), Marker(a.marker_2[1])), a.index)
    ELSE Subscript(Marker(a.marker_1), a.index)

\* casadi.jacobian(constraint, q_sym): entry [r][c] is
\* lin[r][c] + 2 * quad[r][c] * q[c], kept as (const, slope)
jacobian(e) ==
    [r \in 1..Len(e.lin) |-> [c \in 1..NQ |-> [const |-> e.lin[r][c], slope |-> 2 * e.quad[r][c]]]]

RECURSIVE SumTo(_, _)
SumTo(f, n) == IF n = 0 THEN 0 ELSE f[n] + SumTo(f, n - 1)

\* matrix @ vector
MatVec(m, v) == [r \in 1..Len(m) |-> SumTo([c \in 1..NQ |-> m[r][c] * v[c]], NQ)]

VecPlus(u, v) == [r \in 1..Len(u) |-> u[r] + v[r]]

\* constraint_func(q)
constraint_func(a, q) ==
    LET e == constraint(a)
    IN  [r \in 1..Len(e.lin) |->
            SumTo([c \in 1..NQ |-> e.lin[r][c] * q[c] + e.quad[r][c] * q[c] * q[c]], NQ)]

\* constraint_jacobian_func(x): the jacobian expression with x in place of q_sym
constraint_jacobian_func(a, x) ==
    LET j == jacobian(constraint(a))
    IN  [r \in 1..Len(j) |-> [c \in 1..NQ |-> j[r][c].const + j[r][c].slope * x[c]]]

\* variant: the second term is the time derivative of the jacobian along q_dot
constraint_double_derivative_func_chain_rule(a, q, q_dot, q_ddot) ==
    LET j == jacobian(constraint(a))
    IN  VecPlus(MatVec(constraint_jacobian_func(a, q), q_ddot),
                MatVec([r \in 1..Len(j) |-> [c \in 1..NQ |-> j[r][c].slope * q_dot[c]]], q_dot))

\* constraint_double_derivative_func(q, q_dot, q_ddot)
constraint_double_derivative_func(a, q, q_dot, q_ddot) ==
    VecPlus(MatVec(constraint_jacobian_func(a, q), q_ddot),
            MatVec(constraint_jacobian_func(a, q_dot), q_dot))

\* values of a generalized coordinate, velocity or acceleration
CoordinateValues == {-1, 0, 1}

\* arguments of superimpose_markers and of the functions it returns
HolonomicInputs ==
    [marker_1 : {"marker_1"},
     marker_2 : {None, Some("marker_2")},
     index : {<<0, 3>>, <<0, 2>>},
     q : [1..NQ -> CoordinateValues],
     q_dot : [1..NQ -> CoordinateValues],
     q_ddot : [1..NQ -> CoordinateValues]]

InitHolonomic ==
    /\ penalty = Penalty(ScalarPhase(0), <<0>>, << >>, << >>, NoTarget, "DEFAULT", {})
    /\ op = "idle"
    /\ arg_index = None
    /\ arg_constructing = FALSE
    /\ arg_kind = "MX"
    /\ arg_matrix \in HolonomicInputs
    /\ calls = << >>
    /\ exc = NoExc
    /\ ret = NoVal
    /\ NoConstruction

CallConstraintFunc ==
    /\ op = "idle"
    /\ Returns("holonomic_constraint", None, FALSE, "MX",
               Outcome(NoExc, << >>, constraint_func(arg_matrix, arg_matrix.q)))

CallConstraintJacobianFunc ==
    /\ op = "idle"
    /\ Returns("holonomic_constraint_jacobian", None, FALSE, "MX",
               Outcome(NoExc, << >>, constraint_jacobian_func(arg_matrix, arg_matrix.q)))

CallConstraintDoubleDerivativeFunc ==
    /\ op = "idle"
    /\ Returns("holonomic_constraint_double_derivative", None, FALSE, "MX",
               Outcome(NoExc, << >>,
                       constraint_double_derivative_func(arg_matrix, arg_matrix.q,
                                                         arg_matrix.q_dot, arg_matrix.q_ddot)))

NextHolonomic ==
    \/ CallConstraintFunc
    \/ CallConstraintJacobianFunc
    \/ CallConstraintDoubleDerivativeFunc

SpecHolonomic == InitHolonomic /\ [][NextHolonomic]_vars

----------------------------------------------------------------------------
(* Vocabulary of the properties *)

\* penalty.phase is a list of more than one phase
MultiPhaseList(p) == p.phase.isList /\ Len(p.phase.v) > 1

\* a transition whose declared lists do not both hold exactly two entries
MalformedTransition(p) ==
    p.transition /\ (Len(p.nodes_phase) # 2 \/ Len(p.multinode_idx) # 2)

\* states() takes its integrated branch
StatesIntegrated(p) == p.integrate \/ p.integration_rule = "APPROXIMATE_TRAPEZOIDAL"

\* states() reaches its transition / multinode branch
StatesReachesCouplings(p) ==
    /\ ~MultiPhaseList(p)
    /\ ~StatesIntegrated(p)
    /\ ~p.derivative
    /\ ~p.explicit_derivative
    /\ p.transition \/ p.multinode_penalty

\* none of the five flags and no integrated quadrature rule
PlainPenalty(p) ==
    /\ ~p.integrate
    /\ ~p.derivative
    /\ ~p.explicit_derivative
    /\ ~p.transition
    /\ ~p.multinode_penalty
    /\ p.integration_rule = "DEFAULT"

Reverse(s) == [i \in 1..Len(s) |-> s[Len(s) + 1 - i]]

\* the column vector of one slice of the state (or control) data
StateSlice(phase, node, sub) == ColumnMajor(get_state_decision(arg_kind, phase, node, sub).m)

ControlSlice(phase, node, sub) == ColumnMajor(get_control_decision(arg_kind, phase, node, sub).m)

\* the node the index argument designates
CurrentNode == IF arg_index = None THEN 0 ELSE penalty.node_idx[arg_index[1] + 1]

----------------------------------------------------------------------------
(* Properties of the multi-node index resolver *)

\* C1: a transition with exactly two declared phases and two declared nodes
\* resolves to exactly two couplings, the declared pairs in reversed order
\* (declared index 1, then declared index 0), with the sub-node selectors
\* slice(-1, None) then slice(0, 1).
C1_TransitionReversed ==
    (/\ op = "_get_multinode_indices"
     /\ penalty.transition
     /\ Len(penalty.nodes_phase) = 2
     /\ Len(penalty.multinode_idx) = 2)
    => /\ exc = NoExc
       /\ ret.phases = Reverse(penalty.nodes_phase)
       /\ ret.nodes = Reverse(penalty.multinode_idx)
       /\ ret.subnodes = <<SliceLast, SliceFirst>>
       /\ Len(ret.phases) = 2 /\ Len(ret.nodes) = 2

C1_Witness ==
    /\ op = "_get_multinode_indices"
    /\ penalty.transition
    /\ penalty.nodes_phase = <<0, MaxPhase>>
    /\ penalty.multinode_idx = <<MaxNode, 0>>
    /\ exc = NoExc
    /\ ret.phases = <<MaxPhase, 0>>
    /\ ret.nodes = <<0, MaxNode>>

\* C2: a transition whose nodes_phase or multinode_idx does not hold exactly
\* two entries fails with the RuntimeError of the resolver, returns nothing
\* and calls no data-access callback, through _get_multinode_indices, t0 and
\* controls, and through states whenever states reaches the resolver (the
\* penalty is neither a multi-phase list nor integrated nor derivative).
C2_MalformedTransitionRaises ==
    (/\ MalformedTransition(penalty)
     /\ \/ op \in {"_get_multinode_indices", "t0", "controls"}
        \/ op = "states" /\ StatesReachesCouplings(penalty))
    => /\ exc = RuntimeErrorTransition
       /\ ret = NoVal
       /\ calls = << >>

C2_Witness ==
    /\ op = "states"
    /\ StatesReachesCouplings(penalty)
    /\ penalty.transition
    /\ Len(penalty.nodes_phase) = 2
    /\ Len(penalty.multinode_idx) = 3
    /\ exc = RuntimeErrorTransition
    /\ calls = << >>

\* C3: a multinode penalty that is not a transition resolves to the declared
\* lists in declared order (phases = nodes_phase, nodes = multinode_idx),
\* with one sub-node selector per declared node, each slice(0, 1).
C3_MultinodeDeclaredOrder ==
    (/\ op = "_get_multinode_indices"
     /\ penalty.multinode_penalty
     /\ ~penalty.transition)
    => /\ exc = NoExc
       /\ ret.phases = penalty.nodes_phase
       /\ ret.nodes = penalty.multinode_idx
       /\ Len(ret.subnodes) = Len(penalty.multinode_idx)
       /\ \A i \in 1..Len(ret.subnodes) : ret.subnodes[i] = SliceFirst

C3_Witness ==
    /\ op = "_get_multinode_indices"
    /\ penalty.multinode_penalty
    /\ ~penalty.transition
    /\ penalty.nodes_phase = <<0, MaxPhase>>
    /\ penalty.multinode_idx = <<MaxNode, 0, MaxNode>>
    /\ ret.subnodes = <<SliceFirst, SliceFirst, SliceFirst>>

----------------------------------------------------------------------------
(* Properties of states *)

\* C4: for a plain penalty on a single phase, states calls get_state_decision
\* exactly once, with (penalty.phase, the node the index designates,
\* slice(0, 1)), and returns that one slice as a column vector, unconcatenated,
\* whatever the constructing flag.
C4_PlainSingleFetch ==
    (/\ op = "states"
     /\ PlainPenalty(penalty)
     /\ ~MultiPhaseList(penalty))
    => /\ exc = NoExc
       /\ calls = << Call(penalty.phase, CurrentNode, SliceFirst) >>
       /\ ret = Matrix(arg_kind, StateSlice(penalty.phase, CurrentNode, SliceFirst))
       /\ Len(ret.m) = NX

C4_Witness ==
    /\ op = "states"
    /\ PlainPenalty(penalty)
    /\ ~MultiPhaseList(penalty)
    /\ arg_constructing
    /\ arg_index = Some(1)
    /\ penalty.node_idx = <<0, MaxNode>>
    /\ Len(calls) = 1
    /\ Len(ret.m) = NX

\* the slice that closes the interval of the current node: the end point of
\* the node while the penalty is constructed, else the start of the next node
LaterCall ==
    IF arg_constructing
    THEN Call(penalty.phase, CurrentNode, SliceLast)
    ELSE Call(penalty.phase, CurrentNode + 1, SliceFirst)

LaterSlice ==
    IF arg_constructing
    THEN StateSlice(penalty.phase, CurrentNode, SliceLast)
    ELSE StateSlice(penalty.phase, CurrentNode + 1, SliceFirst)

EarlierCall == Call(penalty.phase, CurrentNode, SliceFirst)

EarlierSlice == StateSlice(penalty.phase, CurrentNode, SliceFirst)

\* what states returns for an integrated penalty: all sub-steps of the
\* current node, then the closing slice
IntegratedOutcome ==
    /\ exc = NoExc
    /\ calls = << Call(penalty.phase, CurrentNode, SliceAll), LaterCall >>
    /\ ret.m = StateSlice(penalty.phase, CurrentNode, SliceAll) \o LaterSlice
    /\ Len(ret.m) = NX * NSteps + NX

\* a penalty of the integrated kind alone: the integrate flag or one of the
\* two trapezoidal rules, and no flag of another kind
IntegratedKind(p) ==
    /\ p.integrate \/ p.integration_rule \in {"TRAPEZOIDAL", "APPROXIMATE_TRAPEZOIDAL"}
    /\ ~p.derivative
    /\ ~p.explicit_derivative
    /\ ~p.transition
    /\ ~p.multinode_penalty

StatesDerivativeType(p) == ~MultiPhaseList(p) /\ ~StatesIntegrated(p)

\* C6: on the same node, a derivative penalty and an explicit_derivative
\* penalty make states fetch the same two slices (earlier: first sub-step of
\* the current node; later: first sub-step of the next node, or last sub-step
\* of the current node when constructing); derivative returns (later,
\* earlier), explicit_derivative returns (earlier, later).
C6_DerivativeOrder ==
    /\ (/\ op = "states"
        /\ StatesDerivativeType(penalty)
        /\ penalty.derivative
        /\ ~penalty.explicit_derivative)
       => /\ exc = NoExc
          /\ calls = << EarlierCall, LaterCall >>
          /\ ret.m = LaterSlice \o EarlierSlice
    /\ (/\ op = "states"
        /\ StatesDerivativeType(penalty)
        /\ penalty.explicit_derivative
        /\ ~penalty.derivative)
       => /\ exc = NoExc
          /\ calls = << EarlierCall, LaterCall >>
          /\ ret.m = EarlierSlice \o LaterSlice

C6_Witness ==
    /\ op = "states"
    /\ StatesDerivativeType(penalty)
    /\ penalty.explicit_derivative
    /\ ~penalty.derivative
    /\ arg_constructing
    /\ exc = NoExc
    /\ calls = << EarlierCall, Call(penalty.phase, CurrentNode, SliceLast) >>
    /\ ret.m = EarlierSlice \o LaterSlice
    /\ ret.m # LaterSlice \o EarlierSlice

\* the couplings a penalty resolves to, from its declaration
ResolvedCouplings(p) ==
    IF p.transition
    THEN << Call(ScalarPhase(p.nodes_phase[2]), p.multinode_idx[2], SliceLast),
            Call(ScalarPhase(p.nodes_phase[1]), p.multinode_idx[1], SliceFirst) >>
    ELSE [i \in 1..(IF Len(p.nodes_phase) <= Len(p.multinode_idx)
                    THEN Len(p.nodes_phase) ELSE Len(p.multinode_idx)) |->
            Call(ScalarPhase(p.nodes_phase[i]), p.multinode_idx[i], SliceFirst)]

RECURSIVE ConcatStateSlices(_)
ConcatStateSlices(cs) ==
    IF Len(cs) = 0 THEN << >>
    ELSE StateSlice(cs[1][1], cs[1][2], cs[1][3]) \o ConcatStateSlices(Tail(cs))

RECURSIVE ConcatControlSlices(_)
ConcatControlSlices(cs) ==
    IF Len(cs) = 0 THEN << >>
    ELSE ControlSlice(cs[1][1], cs[1][2], cs[1][3]) \o ConcatControlSlices(Tail(cs))

\* C7 as stated: for every transition or multinode penalty (one that
\* resolves), states fetches one slice per resolved coupling, at the
\* coupling's phase, node and sub-node selector, and returns their vertical
\* concatenation in resolved order, whatever the index and the constructing
\* flag.
C7_AsStated ==
    (/\ op = "states"
     /\ StatesReachesCouplings(penalty)
     /\ ~MalformedTransition(penalty))
    => /\ exc = NoExc
       /\ calls = ResolvedCouplings(penalty)
       /\ ret.m = ConcatStateSlices(ResolvedCouplings(penalty))

\* The part of C7 that the code meets: the same, when at least one coupling
\* is resolved.
C7_NonEmptyCouplings ==
    (/\ op = "states"
     /\ StatesReachesCouplings(penalty)
     /\ ~MalformedTransition(penalty)
     /\ Len(ResolvedCouplings(penalty)) > 0)
    => /\ exc = NoExc
       /\ calls = ResolvedCouplings(penalty)
       /\ ret.m = ConcatStateSlices(ResolvedCouplings(penalty))

\* C8: states fails with NotImplementedError, before any call to the
\* callback, exactly when penalty.phase is a list of more than one phase,
\* for every penalty kind, index and constructing flag; a scalar phase or a
\* one-element list never raises it.
C8_MultiPhaseRejected ==
    (op = "states")
    => /\ MultiPhaseList(penalty)
          => (exc = NotImplementedMultiPhase /\ calls = << >> /\ ret = NoVal)
       /\ ~MultiPhaseList(penalty) => exc.type # "NotImplementedError"

C8_Witness ==
    /\ op = "states"
    /\ MultiPhaseList(penalty)
    /\ penalty.transition
    /\ arg_constructing
    /\ exc = NotImplementedMultiPhase
    /\ calls = << >>

----------------------------------------------------------------------------
(* Properties of controls and target *)

\* C9 as stated: controls fetches one control slice per resolved coupling and
\* concatenates them in resolved order for transition / multinode penalties;
\* the full control span (all sub-steps) of the current node for integrate,
\* derivative and explicit_derivative penalties; the first sub-step of the
\* current node for the others.
C9_AsStated ==
    (op = "controls" /\ ~MalformedTransition(penalty))
    => IF penalty.transition \/ penalty.multinode_penalty
       THEN /\ exc = NoExc
            /\ calls = ResolvedCouplings(penalty)
            /\ ret.m = ConcatControlSlices(ResolvedCouplings(penalty))
       ELSE IF penalty.integrate \/ penalty.derivative \/ penalty.explicit_derivative
       THEN /\ exc = NoExc
            /\ calls = << Call(penalty.phase, CurrentNode, SliceAll) >>
            /\ ret.m = ControlSlice(penalty.phase, CurrentNode, SliceAll)
       ELSE /\ exc = NoExc
            /\ calls = << Call(penalty.phase, CurrentNode, SliceFirst) >>
            /\ ret.m = ControlSlice(penalty.phase, CurrentNode, SliceFirst)

\* The part of C9 that the code meets: the same table, when a transition /
\* multinode penalty resolves at least one coupling.
C9_NonEmptyCouplings ==
    (/\ op = "controls"
     /\ ~MalformedTransition(penalty)
     /\ (penalty.transition \/ penalty.multinode_penalty)
            => Len(ResolvedCouplings(penalty)) > 0)
    => C9_AsStated

\* C10: with no configured target, target returns a vector of length zero
\* for every node index, also one outside the penalty's node list.
C10_NoTargetEmpty ==
    (op = "target" /\ penalty.target.isNone)
    => /\ exc = NoExc
       /\ ret = Array1D(<< >>)
       /\ Len(ret.m) = 0

C10_Witness ==
    /\ op = "target"
    /\ penalty.target.isNone
    /\ penalty.integration_rule = "TRAPEZOIDAL"
    /\ Len(penalty.node_idx) = 1
    /\ arg_index = Some(MaxNode + 1)
    /\ exc = NoExc
    /\ Len(ret.m) = 0

\* the node index given to target addresses a column of the k-th target array
TargetDefinedAt(p, k, j) == Len(p.target.arrays) >= k /\ j < NCols(p.target.arrays[k])

\* C11: with a configured target and the trapezoidal or the
\* approximate-trapezoidal rule, target returns the transposed stack of exactly
\* two entries, the target at the current node (target[0]) then the target at
\* the next node (target[1]), where both are defined at the node index; with
\* any other rule it returns the single per-node slice of target[0].
C11_TargetStack ==
    (op = "target" /\ ~penalty.target.isNone)
    => LET j == arg_index[1]
           tg == penalty.target.arrays
       IN  IF penalty.integration_rule \in {"TRAPEZOIDAL", "APPROXIMATE_TRAPEZOIDAL"}
           THEN (TargetDefinedAt(penalty, 1, j) /\ TargetDefinedAt(penalty, 2, j))
                => /\ exc = NoExc
                   /\ ret.type = "ndarray" /\ ret.ndim = 2
                   /\ Len(ret.m) = NT
                   /\ \A r \in 1..NT : ret.m[r] = << tg[1][r][j + 1], tg[2][r][j + 1] >>
           ELSE TargetDefinedAt(penalty, 1, j)
                => /\ exc = NoExc
                   /\ ret.ndim = 1
                   /\ Len(ret.m) = NT
                   /\ \A r \in 1..NT : ret.m[r] = tg[1][r][j + 1]

C11_Witness ==
    /\ op = "target"
    /\ ~penalty.target.isNone
    /\ penalty.integration_rule = "TRAPEZOIDAL"
    /\ Len(penalty.target.arrays) = 2
    /\ arg_index = Some(1)
    /\ exc = NoExc
    /\ ret.m[1] = << <<"target", 0, 1, 2>>, <<"target", 1, 1, 2>> >>

\* a type the reshape utility accepts
Supported(m) == m.type \in {"SX", "MX", "DM", "ndarray"}

\* a matrix of one column
IsColumn(m) == m.ndim = 2 /\ \A r \in 1..Len(m.m) : Len(m.m[r]) = 1

\* element k (from 1) of the column-after-column reading of a matrix
ColumnOrderElem(m, k) ==
    IF m.ndim = 1 THEN m.m[k]
    ELSE m.m[((k - 1) % Len(m.m)) + 1][((k - 1) \div Len(m.m)) + 1]

NElems(m) == IF m.ndim = 1 THEN Len(m.m) ELSE Len(m.m) * Len(m.m[1])

\* v is the column vector of m: same type, one column, elements of m column
\* after column
IsVectorOf(v, m) ==
    /\ v.type = m.type
    /\ IsColumn(v)
    /\ Len(v.m) = NElems(m)
    /\ \A k \in 1..NElems(m) : v.m[k][1] = ColumnOrderElem(m, k)

\* C20: for every supported matrix, reshaping the reshaped vector gives the
\* same vector, reshaping an already-column vector returns it unchanged
\* (same elements, order and shape), and phases_dt, which reshapes twice,
\* returns the column vector a single reshape gives.
C20_ReshapeIdempotent ==
    (op \in {"phases_dt", "parameters", "_reshape_to_vector"} /\ Supported(arg_matrix))
    => /\ exc = NoExc
       /\ IsVectorOf(ret, arg_matrix)
       /\ _reshape_to_vector(ret) = Ok(ret)
       /\ IsColumn(arg_matrix) => ret = arg_matrix
       /\ op = "phases_dt" => Ok(ret) = _reshape_to_vector(arg_matrix)

C20_Witness ==
    /\ op = "phases_dt"
    /\ arg_matrix = Matrix("ndarray", << <<"a", "b">>, <<"a", "b">> >>)
    /\ exc = NoExc
    /\ ret = Matrix("ndarray", << <<"a">>, <<"a">>, <<"b">>, <<"b">> >>)

----------------------------------------------------------------------------
(* Vocabulary of the properties of the stochastic assemblers *)

\* _declare_multi_node_penalties has returned
PenaltiesDeclared == pc \in {"penalties_declared", "done"}

ExplicitProblem == ctor.problem_type = ProblemType("SOCP_EXPLICIT", TRUE)

ImplicitProblem == ctor.problem_type = ProblemType("SOCP_IMPLICIT", TRUE)

NPhases == Len(ctor.n_shooting)

\* the pool entries that follow the penalties the caller declared
GeneratedEntries ==
    SubSeq(pool, Len(ctor.multinode_constraints) + Len(ctor.multinode_objectives) + 1, Len(pool))

IsMConstraint(c) == c.list = "MultinodeConstraintList" /\ c.fcn = "M_EQUALS_INVERSE_OF_DG_DZ"

\* positions of the generated entries that are M-constraints
MPositions == {k \in 1..Len(GeneratedEntries) : IsMConstraint(GeneratedEntries[k])}

\* ... inside phase p, and across two phases
IntraPhaseM(p) == {k \in MPositions : GeneratedEntries[k].nodes_phase = <<p, p>>}

BoundaryM ==
    {k \in MPositions : GeneratedEntries[k].nodes_phase[1] # GeneratedEntries[k].nodes_phase[2]}

HasNoise(c) == c.wM_magnitude = "wM" /\ c.wS_magnitude = "wS"

SingleNodeKinds == {"COVARIANCE_MATRIX_CONINUITY_IMPLICIT", "A_EQUALS_DF_DX", "C_EQUALS_DF_DW"}

SingleNodePositions == {k \in 1..Len(GeneratedEntries) : GeneratedEntries[k].list = "ConstraintList"}

\* the (phase, node) pairs at which the single-node constraints of a kind apply
Applications(fcn) ==
    UNION {{<<GeneratedEntries[k].phase[1], n>> :
                n \in NodesOfPhase(ocp.nlp[GeneratedEntries[k].phase[1] + 1])}
           : k \in {j \in SingleNodePositions : GeneratedEntries[j].fcn = fcn}}

RECURSIVE SumSeq(_)
SumSeq(s) == IF Len(s) = 0 THEN 0 ELSE s[1] + SumSeq(Tail(s))

\* positions of the generated multi-node covariance-continuity constraints
CovarianceBoundary ==
    {k \in 1..Len(GeneratedEntries) :
        /\ GeneratedEntries[k].list = "MultinodeConstraintList"
        /\ GeneratedEntries[k].fcn = "COVARIANCE_MATRIX_CONINUITY_IMPLICIT"}

C13_BoundaryM ==
    (PenaltiesDeclared /\ (ExplicitProblem \/ ImplicitProblem))
    => /\ Cardinality(BoundaryM) = NPhases - 1
       /\ \A k \in 1..(NPhases - 1) :
             Cardinality({j \in BoundaryM : GeneratedEntries[j].nodes_phase = <<k - 1, k>>}) = 1
       /\ \A j \in BoundaryM : GeneratedEntries[j].nodes = <<-1, 0>>
       /\ \A j \in MPositions : GeneratedEntries[j].nodes = <<-1, 0>> => j \in BoundaryM

C13_Witness ==
    /\ pc = "done"
    /\ ImplicitProblem
    /\ NPhases = 2
    /\ \E j \in BoundaryM :
          GeneratedEntries[j].nodes_phase = <<0, 1>> /\ GeneratedEntries[j].nodes = <<-1, 0>>

\* C14: for every list of phases and the same noise magnitudes, the
\* M-constraints the implicit assembler emits (function, nodes_phase, nodes,
\* dynamics, noise magnitudes, in emission order) are the sequence the
\* explicit assembler emits.
C14_SameMConstraints ==
    (PenaltiesDeclared /\ ImplicitProblem)
    => SelectSeq(GeneratedEntries, IsMConstraint)
       = _prepare_stochastic_dynamics_explicit(<< >>, ocp.nlp,
                                               ctor.problem_type.wM_magnitude,
                                               ctor.problem_type.wS_magnitude)

C14_Witness ==
    /\ pc = "done"
    /\ ImplicitProblem
    /\ ctor.n_shooting = <<4, 3>>
    /\ Len(SelectSeq(GeneratedEntries, IsMConstraint)) = 6

\* C15: the implicit assembler emits, for every phase, single-node
\* constraints of exactly three kinds (covariance continuity, A = df/dx,
\* C = df/dw), each applied at every node of the phase and carrying the two
\* noise magnitudes, so that phases of 4 and 3 nodes give 4+3 applications of
\* each kind; the explicit assembler emits none of them.
C15_SingleNodeConstraints ==
    /\ (PenaltiesDeclared /\ ImplicitProblem)
       => /\ {GeneratedEntries[k].fcn : k \in SingleNodePositions} = SingleNodeKinds
          /\ \A fcn \in SingleNodeKinds :
                /\ \A p \in 0..(NPhases - 1) :
                      Cardinality({k \in SingleNodePositions :
                                      /\ GeneratedEntries[k].fcn = fcn
                                      /\ GeneratedEntries[k].phase = Some(p)}) = 1
                /\ Cardinality(Applications(fcn)) = SumSeq(ctor.n_shooting)
                /\ \A p \in 0..(NPhases - 1) :
                      \A n \in NodesOfPhase(ocp.nlp[p + 1]) : <<p, n>> \in Applications(fcn)
          /\ \A k \in SingleNodePositions :
                GeneratedEntries[k].node = "ALL" /\ HasNoise(GeneratedEntries[k])
          /\ ctor.n_shooting = <<4, 3>>
             => \A fcn \in SingleNodeKinds : Cardinality(Applications(fcn)) = 7
    /\ (PenaltiesDeclared /\ ExplicitProblem)
       => /\ SingleNodePositions = {}
          /\ \A k \in 1..Len(GeneratedEntries) : GeneratedEntries[k].fcn \notin SingleNodeKinds

C15_Witness ==
    /\ pc = "done"
    /\ ImplicitProblem
    /\ ctor.n_shooting = <<4, 3>>
    /\ Cardinality(SingleNodePositions) = 6
    /\ <<1, 2>> \in Applications("C_EQUALS_DF_DW")

\* C16: the implicit assembler emits exactly one multi-node
\* covariance-continuity constraint for every phase k > 0, coupling node -1 of
\* phase k-1 to node 0 of phase k, and none for a single-phase problem; the
\* explicit assembler emits no covariance-continuity constraint.
C16_CovarianceBoundary ==
    /\ (PenaltiesDeclared /\ ImplicitProblem)
       => /\ Cardinality(CovarianceBoundary) = NPhases - 1
          /\ \A k \in 1..(NPhases - 1) :
                Cardinality({j \in CovarianceBoundary :
                                /\ GeneratedEntries[j].nodes_phase = <<k - 1, k>>
                                /\ GeneratedEntries[j].nodes = <<-1, 0>>}) = 1
          /\ NPhases = 1 => CovarianceBoundary = {}
    /\ (PenaltiesDeclared /\ ExplicitProblem)
       => \A k \in 1..Len(GeneratedEntries) :
             GeneratedEntries[k].fcn # "COVARIANCE_MATRIX_CONINUITY_IMPLICIT"

C16_Witness ==
    /\ pc = "done"
    /\ ImplicitProblem
    /\ NPhases = 2
    /\ \E j \in CovarianceBoundary :
          GeneratedEntries[j].nodes_phase = <<0, 1>> /\ GeneratedEntries[j].nodes = <<-1, 0>>

\* the call asks for more than one thread, through the parameter n_threads or
\* through a keyword n_thread
RequestsMultiThreading ==
    \/ ctor.n_threads # 1
    \/ (HasKey(ctor.kwargs, "n_thread") /\ Get(ctor.kwargs, "n_thread") # 1)

\* the body of __init__ has gone past its first statement
Entered == pc \notin {"none", "__init__"}

\* nothing was initialized, built or put in the pool
NothingBuilt ==
    /\ ~ocp.bio_model_initialized
    /\ ocp.original_values = None
    /\ ocp.build_arguments = None
    /\ ocp.nlp = << >>
    /\ pool = << >>
    /\ ~ocp.finalized

\* C17 as stated: a requested thread count other than 1 raises a
\* configuration error at once, before the model is initialized and before
\* anything is built or added to the pool, and the requested count is never
\* forwarded to the base builder.
C17_AsStated ==
    (Entered /\ RequestsMultiThreading)
    => /\ pc = "raised"
       /\ exc.type = "ValueError"
       /\ NothingBuilt

\* The part of C17 that the code meets: a keyword n_thread other than 1 is
\* rejected at once.
C17_KeywordRejected ==
    (Entered /\ HasKey(ctor.kwargs, "n_thread") /\ Get(ctor.kwargs, "n_thread") # 1)
    => /\ pc = "raised"
       /\ exc = ValueErrorThreads
       /\ NothingBuilt

\* C18 as stated: assume_phase_dynamics true raises a configuration error at
\* once, before anything is built, and a true value is never forwarded to the
\* base builder.
C18_AsStated ==
    (pc \notin {"none", "__init__", "n_threads_set"} /\ ctor.assume_phase_dynamics)
    => /\ pc = "raised"
       /\ exc.type = "ValueError"
       /\ NothingBuilt

\* What the code does with assume_phase_dynamics: the field of the object is
\* False whatever was asked, the check never raises, and the builder receives
\* the value of the argument.
C18_NeverRaised ==
    /\ exc # ValueErrorPhaseDynamics
    /\ ocp.build_arguments # None
       => ocp.build_arguments[1].assume_phase_dynamics = ctor.assume_phase_dynamics

\* number of constraints each assembler generates for the phases built
ExpectedGenerated ==
    IF ExplicitProblem
    THEN SumSeq(ctor.n_shooting) - NPhases + (NPhases - 1)
    ELSE IF ImplicitProblem
    THEN SumSeq(ctor.n_shooting) - NPhases + 2 * (NPhases - 1) + 3 * NPhases
    ELSE 0

IsGenerated(c) == c.fcn # "CUSTOM"

\* C19: in every construction the generated stochastic constraints
\* (multi-node and single-node) enter the pool after the multi-node
\* constraints and objectives the caller declared and before
\* finalize_penalties runs; nothing enters the pool after finalization.
C19_PoolOrder ==
    /\ ocp.problem_type = None => (pool = << >> /\ ~ocp.finalized)
    /\ ocp.problem_type # None
       => /\ SubSeq(pool, 1, Len(ctor.multinode_constraints) + Len(ctor.multinode_objectives))
             = ctor.multinode_constraints \o ctor.multinode_objectives
          /\ Len(GeneratedEntries) = ExpectedGenerated
          /\ \A k \in 1..Len(GeneratedEntries) : IsGenerated(GeneratedEntries[k])
    /\ pc \in {"penalties_declared", "raised"} => ~ocp.finalized
    /\ ocp.finalized => pc = "done"

C19_Witness ==
    /\ pc = "done"
    /\ ocp.finalized
    /\ ImplicitProblem
    /\ Len(ctor.multinode_constraints) = 1
    /\ Len(ctor.multinode_objectives) = 1
    /\ pool[1].list = "MultinodeConstraintList" /\ ~IsGenerated(pool[1])
    /\ pool[2].list = "MultinodeObjectiveList"
    /\ Len(pool) > 2
    /\ IsGenerated(pool[3])
    /\ pool[Len(pool)].list = "ConstraintList"

----------------------------------------------------------------------------
(* Vocabulary of the properties of _vertcat *)

\* the elements of a list do not all have the kind of the first one
MixedKinds(v) == \E i \in 1..Len(v.items) : v.items[i].type # v.items[1].type

\* rows of the elements of a list, one element after the other
RECURSIVE RowsInOrder(_, _)
RowsInOrder(items, i) ==
    IF i > Len(items) THEN << >> ELSE items[i].m \o RowsInOrder(items, i + 1)

----------------------------------------------------------------------------
(* Purity of the resolution functions *)

\* what the last call raised, asked and returned
LastOutcome == Outcome(exc, calls, ret)

\* the outcome recorded in a state is the outcome of the function named,
\* applied to the penalty and the arguments recorded in that state
OutcomeOfArguments ==
    /\ op = "t0" => LastOutcome = t0(penalty, arg_index[1])
    /\ op = "states" => LastOutcome = states(penalty, arg_index, arg_kind, arg_constructing)
    /\ op = "controls" => LastOutcome = controls(penalty, arg_index, arg_kind)
    /\ op = "target" => LastOutcome = target(penalty, arg_index[1])
    /\ op = "weight" => LastOutcome = weight(penalty)
    /\ op = "phases_dt" => LastOutcome = phases_dt(penalty, arg_matrix)
    /\ op = "parameters" => LastOutcome = parameters(penalty, arg_matrix)
    /\ op = "_get_multinode_indices"
       => (exc = _get_multinode_indices(penalty).exc /\ ret = _get_multinode_indices(penalty).val)

----------------------------------------------------------------------------
(* Errors during the construction *)

ConfigurationErrors == {ValueErrorThreads, ValueErrorPhaseDynamics}

\* C23: an error raised by an external collaborator while a stochastic OCP
\* is constructed (such as the runtime error of the linear solve under SX)
\* reaches the caller unchanged: the constructor neither catches,
\* reinterprets nor retries it, and no later construction step (declaring
\* the generated penalties, finalization) runs after it.
C23_ErrorsPropagate ==
    /\ [](pc = "raised"
          => /\ exc \in ConfigurationErrors \cup CollaboratorErrors
             /\ ~ocp.finalized
             /\ ocp.problem_type = None => pool = << >>)
    /\ [](pc \in {"__init__", "n_threads_set", "assume_phase_dynamics_set", "model_initialized",
                  "original_values_set", "nlp_built", "penalties_declared", "done"}
          => exc = NoExc)
    /\ [][pc # "raised"]_vars

C23_Witness ==
    /\ pc = "raised"
    /\ exc = RuntimeErrorLinsol
    /\ ocp.original_values # None
    /\ ocp.build_arguments = None
    /\ ocp.nlp = << >>
    /\ pool = << >>
    /\ ~ocp.finalized

----------------------------------------------------------------------------
(* The double derivative of a holonomic constraint *)

\* entry [r][c] of the jacobian function of the call, evaluated at x
J(x, r, c) == constraint_jacobian_func(arg_matrix, x)[r][c]

ZeroVector(v) == \A c \in 1..Len(v) : v[c] = 0

\* C24: the third function returned by superimpose_markers computes
\* J(q) . q_ddot + J(q_dot) . q_dot, J being the compiled jacobian function
\* of the constraint and the second term that same function evaluated at the
\* velocity (not a derivative of J); so with q_dot = 0, q_ddot = 0 and
\* index = slice(0, 3) the output is the zero vector of length 3.
C24_DoubleDerivative ==
    (op = "holonomic_constraint_double_derivative")
    => /\ Len(ret) = arg_matrix.index[2] - arg_matrix.index[1]
       /\ \A r \in 1..Len(ret) :
             ret[r] = SumTo([c \in 1..NQ |-> J(arg_matrix.q, r, c) * arg_matrix.q_ddot[c]], NQ)
                      + SumTo([c \in 1..NQ |-> J(arg_matrix.q_dot, r, c) * arg_matrix.q_dot[c]], NQ)
       /\ (ZeroVector(arg_matrix.q_dot) /\ ZeroVector(arg_matrix.q_ddot) /\ arg_matrix.index = <<0, 3>>)
          => ret = <<0, 0, 0>>

\* a call with a velocity for which J(q_dot) . q_dot is not the derivative
\* of J along q_dot
C24_Witness ==
    /\ op = "holonomic_constraint_double_derivative"
    /\ arg_matrix.marker_2 = Some("marker_2")
    /\ arg_matrix.index = <<0, 3>>
    /\ arg_matrix.q_dot[1] = 1
    /\ ZeroVector(arg_matrix.q_ddot)
    /\ ret # <<0, 0, 0>>

----------------------------------------------------------------------------
(* The constructing flag and the slices states() asks for *)

\* the slice requests states() made in the last call
RequestedLast == \E i \in 1..Len(calls) : calls[i][3] = SliceLast

RequestedElsewhere == \E i \in 1..Len(calls) : calls[i][2] # CurrentNode

\* C25 as stated: when the penalty is not being constructed, states never
\* asks the data-access callback for the last sub-step of any node, whatever
\* the penalty kind; when it is being constructed, states never asks for a
\* node other than the current one.
C25_AsStated ==
    op = "states"
    => /\ ~arg_constructing => ~RequestedLast
       /\ arg_constructing => ~RequestedElsewhere

\* what holds of C25: the statement is true of every penalty that does not
\* reach the transition / multinode branch of states, and there the end of
\* the interval is the first sub-step of the following node
C25_SingleNodeKinds ==
    (op = "states" /\ ~StatesReachesCouplings(penalty))
    => /\ ~arg_constructing => ~RequestedLast
       /\ arg_constructing => ~RequestedElsewhere
       /\ (/\ ~arg_constructing
           /\ Len(calls) = 2)
          => calls[2] = Call(penalty.phase, CurrentNode + 1, SliceFirst)

----------------------------------------------------------------------------
(* The assembler a completed construction has run *)

\* the assembler that ran is known by the isinstance tests of
\* _declare_multi_node_penalties
AssemblerRan == ExplicitProblem \/ ImplicitProblem

\* a problem of more than one node in all has an M-consistency constraint to
\* generate
HasMToGenerate == SumSeq(ctor.n_shooting) > 1

\* C26 as stated: every construction that completes has run exactly one of
\* the two assemblers, the default problem_type included; none completes
\* with no generated M-consistency constraint in the pool.
C26_AsStated ==
    pc = "done"
    => /\ AssemblerRan
       /\ HasMToGenerate => MPositions # {}

\* what holds of C26: a construction given an instance of one of the two
\* problem types has run that assembler, and a construction given the
\* declared default (the class itself) completes with nothing generated
C26_InstanceOnly ==
    pc = "done"
    => /\ ctor.problem_type.instance
          => (AssemblerRan /\ (HasMToGenerate => MPositions # {}))
       /\ ~ctor.problem_type.instance => GeneratedEntries = << >>

----------------------------------------------------------------------------
(* The kind each helper gives a penalty *)

\* the branch states takes (lines 67, 76, 84, 92)
KindByStates(p) ==
    IF p.integration_rule \in {"APPROXIMATE_TRAPEZOIDAL"} \/ p.integrate THEN "integrated"
    ELSE IF p.derivative \/ p.explicit_derivative THEN "derivative"
    ELSE IF p.transition \/ p.multinode_penalty THEN "couplings"
    ELSE "plain"

\* the branch controls takes (lines 100, 107, 110); it has one branch for the
\* integrated and the derivative kinds
KindByControls(p) ==
    IF p.transition \/ p.multinode_penalty THEN "couplings"
    ELSE IF p.integrate \/ p.derivative \/ p.explicit_derivative THEN "span"
    ELSE "plain"

\* the branch target takes (line 127): two nodes for an integrated penalty,
\* one node otherwise
KindByTarget(p) ==
    IF p.integration_rule \in {"APPROXIMATE_TRAPEZOIDAL", "TRAPEZOIDAL"} THEN "integrated"
    ELSE "single"

SameKind(p) ==
    /\ KindByStates(p) = "couplings" <=> KindByControls(p) = "couplings"
    /\ KindByStates(p) = "plain" <=> KindByControls(p) = "plain"
    /\ KindByStates(p) \in {"integrated", "derivative"} <=> KindByControls(p) = "span"
    /\ KindByTarget(p) = "integrated" => KindByStates(p) = "integrated"

\* the branch operators above are the branches the calls take: what the
\* callback was asked tells the kind
KindsAreBehaviour ==
    /\ (op = "states" /\ ~MultiPhaseList(penalty) /\ exc = NoExc)
       => /\ KindByStates(penalty) = "integrated"
             => (Len(calls) = 2 /\ calls[1] = Call(penalty.phase, CurrentNode, SliceAll))
          /\ KindByStates(penalty) = "derivative"
             => (Len(calls) = 2 /\ calls[1] = Call(penalty.phase, CurrentNode, SliceFirst))
          /\ KindByStates(penalty) = "plain"
             => calls = << Call(penalty.phase, CurrentNode, SliceFirst) >>
          /\ KindByStates(penalty) = "couplings"
             => Len(calls) = Len(ResolvedCouplings(penalty))
    /\ (op = "controls" /\ exc = NoExc)
       => /\ KindByControls(penalty) = "span"
             => calls = << Call(penalty.phase, CurrentNode, SliceAll) >>
          /\ KindByControls(penalty) = "plain"
             => calls = << Call(penalty.phase, CurrentNode, SliceFirst) >>
          /\ KindByControls(penalty) = "couplings"
             => Len(calls) = Len(ResolvedCouplings(penalty))
    /\ (op = "target" /\ exc = NoExc /\ ~penalty.target.isNone)
       => (KindByTarget(penalty) = "integrated" <=> ret.ndim = 2)

\* C27: for every combination of the five flags and every integration rule,
\* states, controls and target give the penalty the same kind.
C27_AsStated ==
    (op \in {"states", "controls", "target"} /\ ~MultiPhaseList(penalty))
    => SameKind(penalty)

\* what holds of C27: the three helpers agree on every penalty with at most
\* one flag set and the default integration rule
AtMostOneFlag(p) ==
    Cardinality({f \in Flags : p[f]}) <= 1

C27_OneFlagDefaultRule ==
    (/\ op \in {"states", "controls", "target"}
     /\ ~MultiPhaseList(penalty)
     /\ AtMostOneFlag(penalty)
     /\ penalty.integration_rule = "DEFAULT")
    => SameKind(penalty)

----------------------------------------------------------------------------
(* The nodes the callbacks are asked for *)

\* the node range [0, ns] of a phase
NodeRange == 0..MaxNode

SinglePhase(p) == ~MultiPhaseList(p)

NodeIdxInRange(p) == \A i \in 1..Len(p.node_idx) : p.node_idx[i] \in NodeRange

AskedInRange == \A i \in 1..Len(calls) : calls[i][2] \in NodeRange

\* C28 as stated: for every single-phase penalty whose node_idx entries lie
\* in the node range of the phase, every node states and controls pass to
\* the data-access callback lies in that range, for every penalty kind and
\* both values of the constructing flag.
C28_AsStated ==
    (/\ op \in {"states", "controls"}
     /\ SinglePhase(penalty)
     /\ NodeIdxInRange(penalty))
    => AskedInRange

\* what holds of C28: controls stays in the range, and so does states when
\* the penalty is being constructed or takes neither the integrated nor the
\* derivative branch
C28_NoFollowingNode ==
    (/\ op \in {"states", "controls"}
     /\ SinglePhase(penalty)
     /\ NodeIdxInRange(penalty)
     /\ \/ op = "controls"
        \/ arg_constructing
        \/ KindByStates(penalty) \in {"plain", "couplings"})
    => AskedInRange

----------------------------------------------------------------------------
(* The errors of _vertcat *)

\* the errors _vertcat declares: the list / type-consistency error and the
\* invalid-type error
DeclaredVertcatErrors == {ValueErrorNotList, ValueErrorMixed, RuntimeErrorVertcat}

\* C29 as stated: for every list argument, the empty list included,
\* _vertcat returns a concatenation or fails with one of its declared
\* errors; it never fails with an unrelated error such as an index error.
C29_AsStated ==
    (op = "_vertcat" /\ arg_matrix.isList)
    => (exc = NoExc \/ exc \in DeclaredVertcatErrors)

\* what holds of C29: the same, for every list of at least one element
C29_NonEmptyList ==
    (op = "_vertcat" /\ arg_matrix.isList /\ Len(arg_matrix.items) > 0)
    => (exc = NoExc \/ exc \in DeclaredVertcatErrors)

====
